---------------------------- MODULE Spec2Model ----------------------------
(***************************************************************************)
(* Model of fraud_streamlit.py: a Streamlit page that loads a pickled      *)
(* classifier through st.cache_resource, collects a claim record from 32   *)
(* widgets, and on a button press runs one prediction and renders it.      *)
(*                                                                         *)
(* One Streamlit session is modelled.  Every user event (a widget edit or  *)
(* a button press) reruns the script main() from the top; the run is cut   *)
(* into the steps load_model, the None check, create_input_features,       *)
(* make_prediction and the rendering.  Probabilities are fixed-point       *)
(* numbers: the integer p stands for p / Scale.                            *)
(***************************************************************************)
EXTENDS Integers, Sequences, FiniteSets, TLC

(* ------------------------------ bounds -------------------------------- *)
\* script runs of the session (the first page load included)
MaxRuns == 4
\* widget edits of the session
MaxEdits == 1
\* changes of the artifact file on disk during the session
MaxFileChanges == 1
\* resolution of probabilities: p1 ranges over 0/Scale .. Scale/Scale
Scale == 10

(* --------------------------- the widgets ------------------------------ *)
Range(s) == {s[i] : i \in 1..Len(s)}

\* st.selectbox(label, options): the options, in source order, keyed by the
\* local variable that receives the selection
SelectboxOptions ==
  [ month |-> <<"Dec", "Jan", "Oct", "Jun", "Feb", "Nov", "Apr", "Mar", "Aug", "Jul", "May", "Sep">>,
    day_of_week |-> <<"Wednesday", "Friday", "Saturday", "Monday", "Tuesday", "Sunday", "Thursday">>,
    month_claimed |-> <<"Jan", "Nov", "Jul", "Feb", "Mar", "Dec", "Apr", "Aug", "May", "Jun", "Sep", "Oct", "0">>,
    day_of_week_claimed |-> <<"Tuesday", "Monday", "Thursday", "Friday", "Wednesday", "Saturday", "Sunday", "0">>,
    make |-> <<"Honda", "Toyota", "Ford", "Mazda", "Chevrolet", "Pontiac", "Accura", "Dodge",
               "Mercury", "Jaguar", "Nisson", "VW", "Saab", "Saturn", "Porche", "BMW",
               "Mercedes", "Ferrari", "Lexus">>,
    vehicle_category |-> <<"Sport", "Utility", "Sedan">>,
    vehicle_price |-> <<"more than 69000", "20000 to 29000", "30000 to 39000", "less than 20000",
                        "40000 to 59000", "60000 to 69000">>,
    age_of_vehicle |-> <<"3 years", "6 years", "7 years", "more than 7", "5 years", "new", "4 years", "2 years">>,
    policy_type |-> <<"Sport - Liability", "Sport - Collision", "Sedan - Liability", "Utility - All Perils",
                      "Sedan - All Perils", "Sedan - Collision", "Utility - Collision", "Utility - Liability",
                      "Sport - All Perils">>,
    base_policy |-> <<"Liability", "Collision", "All Perils">>,
    sex |-> <<"Female", "Male">>,
    marital_status |-> <<"Single", "Married", "Widow", "Divorced">>,
    age_of_policy_holder |-> <<"26 to 30", "31 to 35", "41 to 50", "51 to 65", "21 to 25",
                               "36 to 40", "16 to 17", "over 65", "18 to 20">>,
    fault |-> <<"Policy Holder", "Third Party">>,
    accident_area |-> <<"Urban", "Rural">>,
    days_policy_accident |-> <<"more than 30", "15 to 30", "none", "1 to 7", "8 to 15">>,
    days_policy_claim |-> <<"more than 30", "15 to 30", "8 to 15", "none">>,
    past_number_of_claims |-> <<"none", "1", "2 to 4", "more than 4">>,
    police_report_filed |-> <<"No", "Yes">>,
    witness_present |-> <<"No", "Yes">>,
    agent_type |-> <<"External", "Internal">>,
    number_of_suppliments |-> <<"none", "more than 5", "3 to 5", "1 to 2">>,
    address_change_claim |-> <<"1 year", "no change", "4 to 8 years", "2 to 3 years", "under 6 months">>,
    number_of_cars |-> <<"3 to 4", "1 vehicle", "2 vehicles", "5 to 8", "more than 8">> ]

\* st.slider(label, min, max, value, step) and st.number_input(label,
\* min_value, max_value, value), keyed by the receiving local variable
SliderArgs ==
  [ week_of_month |-> [min |-> 1, max |-> 5, value |-> 3, step |-> 1],
    week_of_month_claimed |-> [min |-> 0, max |-> 5, value |-> 3, step |-> 1],
    deductible |-> [min |-> 300, max |-> 700, value |-> 400, step |-> 100],
    age |-> [min |-> 16, max |-> 80, value |-> 40, step |-> 1],
    driver_rating |-> [min |-> 1, max |-> 4, value |-> 2, step |-> 1],
    policy_number |-> [min |-> 1, max |-> 15420, value |-> 7710, step |-> 1],
    rep_number |-> [min |-> 1, max |-> 16, value |-> 8, step |-> 1],
    year |-> [min |-> 1994, max |-> 1996, value |-> 1995, step |-> 1] ]

SelectboxNames == DOMAIN SelectboxOptions
SliderNames == DOMAIN SliderArgs
WidgetNames == SelectboxNames \cup SliderNames

\* what a widget accepts: one of the options, or a value on the slider's grid
Accepts(w, v) ==
  IF w \in SelectboxNames
    THEN v \in Range(SelectboxOptions[w])
    ELSE /\ v \in SliderArgs[w].min .. SliderArgs[w].max
         /\ (v - SliderArgs[w].min) % SliderArgs[w].step = 0

\* a widget's value before the user touches it: the first option of a
\* selectbox, the value argument of a slider
DefaultValue(w) ==
  IF w \in SelectboxNames THEN SelectboxOptions[w][1] ELSE SliderArgs[w].value

DefaultWidgets == [w \in WidgetNames |-> DefaultValue(w)]


(* ------------------------------- state -------------------------------- *)
VARIABLES
  artifact,         \* state of the file insurance_fraud_model.sav
  fileChanges,      \* how often the file has changed during the session
  cache,            \* the st.cache_resource entry of load_model()
  reads,            \* how often the body of load_model has opened the file
  widgets,          \* the session's widget values
  edits,            \* widget edits so far
  button,           \* st.button's value in the current run
  pc,               \* position of the script run
  ended,            \* how the last script run ended
  runs,             \* script runs so far
  model,            \* main's local: what load_model() returned in this run
  loadMessage,      \* the st.error of load_model shown in this run
  fileAtLoad,       \* state of the file when this run called load_model()
  bodyRan,          \* this run's call of load_model() ran the function body
  features,         \* main's local: the record of create_input_features
  oracle,           \* the pipeline's answers given so far, per record
  prediction,       \* main's local: first component of make_prediction
  prediction_proba, \* main's local: second component of make_prediction
  predictionError,  \* make_prediction emitted st.error in this run
  attempts,         \* calls of make_prediction in this run
  served,           \* every call of make_prediction so far: record and result
  predictCalls,     \* calls of model.predict in this run
  probaCalls,       \* calls of model.predict_proba in this run
  rendered          \* the prediction section of the page in this run

vars == <<artifact, fileChanges, cache, reads, widgets, edits, button, pc, ended,
          runs, model, loadMessage, fileAtLoad, bodyRan, features, oracle, prediction,
          prediction_proba, predictionError, attempts, served, predictCalls,
          probaCalls, rendered>>

session == <<widgets, edits, button, runs>>
disk == <<artifact, fileChanges>>
loaded == <<cache, reads, model, loadMessage, fileAtLoad, bodyRan>>
predicted == <<oracle, prediction, prediction_proba, predictionError,
               attempts, served, predictCalls, probaCalls>>

(* ----------------------- create_input_features ------------------------ *)
\* The dictionary create_input_features returns, built from the widget
\* values w: one entry per key of the return statement.
\* (faulty variant: the 'Year' entry is filled from the age slider)
create_input_features_year_slip(w) ==
  [ Month |-> w.month, DayOfWeek |-> w.day_of_week, Make |-> w.make,
    AccidentArea |-> w.accident_area, DayOfWeekClaimed |-> w.day_of_week_claimed,
    MonthClaimed |-> w.month_claimed, WeekOfMonth |-> w.week_of_month,
    WeekOfMonthClaimed |-> w.week_of_month_claimed, Sex |-> w.sex,
    MaritalStatus |-> w.marital_status, Age |-> w.age, Fault |-> w.fault,
    PolicyType |-> w.policy_type, VehicleCategory |-> w.vehicle_category,
    VehiclePrice |-> w.vehicle_price, Days_Policy_Accident |-> w.days_policy_accident,
    Days_Policy_Claim |-> w.days_policy_claim, PastNumberOfClaims |-> w.past_number_of_claims,
    AgeOfVehicle |-> w.age_of_vehicle, AgeOfPolicyHolder |-> w.age_of_policy_holder,
    PoliceReportFiled |-> w.police_report_filed, WitnessPresent |-> w.witness_present,
    AgentType |-> w.agent_type, NumberOfSuppliments |-> w.number_of_suppliments,
    AddressChange_Claim |-> w.address_change_claim, NumberOfCars |-> w.number_of_cars,
    BasePolicy |-> w.base_policy, PolicyNumber |-> w.policy_number,
    RepNumber |-> w.rep_number, Deductible |-> w.deductible,
    DriverRating |-> w.driver_rating, Year |-> w.age ]

create_input_features(w) ==
  [ Month |-> w.month, DayOfWeek |-> w.day_of_week, Make |-> w.make,
    AccidentArea |-> w.accident_area, DayOfWeekClaimed |-> w.day_of_week_claimed,
    MonthClaimed |-> w.month_claimed, WeekOfMonth |-> w.week_of_month,
    WeekOfMonthClaimed |-> w.week_of_month_claimed, Sex |-> w.sex,
    MaritalStatus |-> w.marital_status, Age |-> w.age, Fault |-> w.fault,
    PolicyType |-> w.policy_type, VehicleCategory |-> w.vehicle_category,
    VehiclePrice |-> w.vehicle_price, Days_Policy_Accident |-> w.days_policy_accident,
    Days_Policy_Claim |-> w.days_policy_claim, PastNumberOfClaims |-> w.past_number_of_claims,
    AgeOfVehicle |-> w.age_of_vehicle, AgeOfPolicyHolder |-> w.age_of_policy_holder,
    PoliceReportFiled |-> w.police_report_filed, WitnessPresent |-> w.witness_present,
    AgentType |-> w.agent_type, NumberOfSuppliments |-> w.number_of_suppliments,
    AddressChange_Claim |-> w.address_change_claim, NumberOfCars |-> w.number_of_cars,
    BasePolicy |-> w.base_policy, PolicyNumber |-> w.policy_number,
    RepNumber |-> w.rep_number, Deductible |-> w.deductible,
    DriverRating |-> w.driver_rating, Year |-> w.year ]

\* no record has been built in this run
NoFeatures == [built |-> FALSE]

(* ----------------------------- load_model ----------------------------- *)
\* states of the file 'insurance_fraud_model.sav': absent, present but not
\* unpicklable (truncated, or pickled by an incompatible library), loadable
ArtifactStates == {"missing", "corrupt", "ok"}

\* The body of load_model, run on a file in state a: the returned value
\* (None or the model handle), the st.error it emits, and whether an
\* exception leaves the function.
\* (faulty variant: the 'except FileNotFoundError' and 'except Exception' handlers
\*  are absent, so open() and pickle.load() raise to the caller)
load_model_uncaught(a) ==
  IF a = "ok"
    THEN [value |-> "model", message |-> "none", raised |-> FALSE]
    ELSE [value |-> "None", message |-> "none", raised |-> TRUE]

load_model(a) ==
  CASE a = "ok" -> [value |-> "model", message |-> "none", raised |-> FALSE]
    [] a = "missing" -> [value |-> "None", message |-> "NotFound", raised |-> FALSE]
    [] OTHER -> [value |-> "None", message |-> "LoadError", raised |-> FALSE]

\* the st.cache_resource entry of load_model() before its first call
Uncached == [hit |-> FALSE]

\* @st.cache_resource around load_model: a call that finds an entry returns
\* it (and replays the st.error recorded with it) without running the body;
\* a call that finds none runs the body once and stores what it returned,
\* None included.  An exception leaving the body is not stored.
\* c is the cache entry, a the state of the file.  Result: the outcome of
\* the call, the cache entry after it, and whether the file was read.
\* (faulty variant: the decorator is absent, every call runs the body)
cache_resource_absent(c, a) ==
  [out |-> load_model(a), cache |-> c, read |-> TRUE]

cache_resource(c, a) ==
  IF c.hit
    THEN [out |-> [value |-> c.value, message |-> c.message, raised |-> FALSE],
          cache |-> c, read |-> FALSE]
    ELSE LET r == load_model(a)
         IN [out |-> r,
             cache |-> IF r.raised THEN c
                       ELSE [hit |-> TRUE, value |-> r.value, message |-> r.message],
             read |-> TRUE]


(* --------------------------- the classifier --------------------------- *)
\* Python's None, and a value that is not None
None == [none |-> TRUE]
Some(x) == [none |-> FALSE, v |-> x]

\* What the unpickled pipeline answers for one record: model.predict(df)
\* raises, or returns a label and then model.predict_proba(df) raises or
\* returns the fraud probability p1 (in units of 1/Scale).  The pipeline
\* is a fixed function of the record, so an answer, once given for a
\* record, is the answer for that record in every later call.
ClassifierAnswers ==
  {[predict |-> "raise", label |-> 0, proba |-> "uncalled", p1 |-> 0]}
  \cup {[predict |-> "ok", label |-> l, proba |-> "raise", p1 |-> 0] : l \in {0, 1}}
  \cup {[predict |-> "ok", label |-> l, proba |-> "ok", p1 |-> p] : l \in {0, 1}, p \in 0..Scale}

\* model.predict(df)[0] of an answer that does not raise: the label
predict(ans) == ans.label

\* model.predict_proba(df)[0] of an answer that does not raise: (p0, p1)
predict_proba(ans) == <<Scale - ans.p1, ans.p1>>

(* --------------------------- make_prediction -------------------------- *)
\* make_prediction(model, features), where ans is the pipeline's answer for
\* features.  Calling .predict on None raises AttributeError inside the try.
\* Result: the returned pair, whether st.error was emitted, and how many
\* times predict and predict_proba were called.
\* (faulty variant: predict_proba is called in a try of its own, and its
\*  failure returns the label already computed with no probabilities)
make_prediction_partial(m, ans) ==
  CASE m = "None" ->
         [prediction |-> None, prediction_proba |-> None, error |-> TRUE,
          predictCalls |-> 0, probaCalls |-> 0]
    [] m # "None" /\ ans.predict = "raise" ->
         [prediction |-> None, prediction_proba |-> None, error |-> TRUE,
          predictCalls |-> 1, probaCalls |-> 0]
    [] m # "None" /\ ans.predict = "ok" /\ ans.proba = "raise" ->
         [prediction |-> Some(predict(ans)), prediction_proba |-> None, error |-> TRUE,
          predictCalls |-> 1, probaCalls |-> 1]
    [] OTHER ->
         [prediction |-> Some(predict(ans)), prediction_proba |-> Some(predict_proba(ans)),
          error |-> FALSE, predictCalls |-> 1, probaCalls |-> 1]

\* (faulty variant: a failure of predict_proba is swallowed and the label
\*  is returned with the probabilities (0, 0))
make_prediction_default_proba(m, ans) ==
  CASE m = "None" ->
         [prediction |-> None, prediction_proba |-> None, error |-> TRUE,
          predictCalls |-> 0, probaCalls |-> 0]
    [] m # "None" /\ ans.predict = "raise" ->
         [prediction |-> None, prediction_proba |-> None, error |-> TRUE,
          predictCalls |-> 1, probaCalls |-> 0]
    [] m # "None" /\ ans.predict = "ok" /\ ans.proba = "raise" ->
         [prediction |-> Some(predict(ans)), prediction_proba |-> Some(<<0, 0>>),
          error |-> FALSE, predictCalls |-> 1, probaCalls |-> 1]
    [] OTHER ->
         [prediction |-> Some(predict(ans)), prediction_proba |-> Some(predict_proba(ans)),
          error |-> FALSE, predictCalls |-> 1, probaCalls |-> 1]

\* (faulty variant: the DataFrame is built once per session and reused, so
\*  a later request is answered for the record of an earlier one)
make_prediction_stale(m, ans) ==
  LET earlier == {o \in oracle : o.record # features.record}
      used == IF earlier = {} THEN ans ELSE (CHOOSE o \in earlier : TRUE).answer
  IN CASE m = "None" ->
            [prediction |-> None, prediction_proba |-> None, error |-> TRUE,
             predictCalls |-> 0, probaCalls |-> 0]
       [] m # "None" /\ used.predict = "raise" ->
            [prediction |-> None, prediction_proba |-> None, error |-> TRUE,
             predictCalls |-> 1, probaCalls |-> 0]
       [] m # "None" /\ used.predict = "ok" /\ used.proba = "raise" ->
            [prediction |-> None, prediction_proba |-> None, error |-> TRUE,
             predictCalls |-> 1, probaCalls |-> 1]
       [] OTHER ->
            [prediction |-> Some(predict(used)), prediction_proba |-> Some(predict_proba(used)),
             error |-> FALSE, predictCalls |-> 1, probaCalls |-> 1]

make_prediction(m, ans) ==
  CASE m = "None" ->
         [prediction |-> None, prediction_proba |-> None, error |-> TRUE,
          predictCalls |-> 0, probaCalls |-> 0]
    [] m # "None" /\ ans.predict = "raise" ->
         [prediction |-> None, prediction_proba |-> None, error |-> TRUE,
          predictCalls |-> 1, probaCalls |-> 0]
    [] m # "None" /\ ans.predict = "ok" /\ ans.proba = "raise" ->
         [prediction |-> None, prediction_proba |-> None, error |-> TRUE,
          predictCalls |-> 1, probaCalls |-> 1]
    [] OTHER ->
         [prediction |-> Some(predict(ans)), prediction_proba |-> Some(predict_proba(ans)),
          error |-> FALSE, predictCalls |-> 1, probaCalls |-> 1]

(* ------------------------------ rendering ----------------------------- *)
\* The risk interpretation of main: fraud_prob >= 0.7, elif fraud_prob >=
\* 0.4, else.  fraud_prob is p / Scale, so fraud_prob >= 0.7 is
\* 10 * p >= 7 * Scale.
\* (faulty variant: the first comparison is strict)
RiskLevelStrict(fraud_prob) ==
  IF 10 * fraud_prob > 7 * Scale THEN "HIGH"
  ELSE IF 10 * fraud_prob >= 4 * Scale THEN "MEDIUM"
  ELSE "LOW"

RiskLevel(fraud_prob) ==
  IF 10 * fraud_prob >= 7 * Scale THEN "HIGH"
  ELSE IF 10 * fraud_prob >= 4 * Scale THEN "MEDIUM"
  ELSE "LOW"

\* what the prediction section of the page shows when nothing is rendered
NothingRendered == [banner |-> "none", scores |-> None, risk |-> "none", exception |-> FALSE]

\* The block of main under 'if prediction is not None': the verdict banner,
\* the two metrics, the risk level.  Subscripting a None prediction_proba
\* raises TypeError after the banner has been emitted.
Render(pred, proba) ==
  IF pred.none THEN NothingRendered
  ELSE LET banner == IF pred.v = 1 THEN "FRAUD DETECTED" ELSE "LOW FRAUD RISK"
       IN IF proba.none
            THEN [banner |-> banner, scores |-> None, risk |-> "none", exception |-> TRUE]
            ELSE [banner |-> banner, scores |-> Some(proba.v),
                  risk |-> RiskLevel(proba.v[2]), exception |-> FALSE]

\* The test 'if model is None' of main, which guards st.stop().
\* (faulty variant: the test is absent and the script runs on)
model_is_none_unchecked(m) == FALSE

model_is_none(m) == m = "None"


(* ---------------------------- initial state --------------------------- *)
\* The process has started and the browser has opened the page: the first
\* script run is about to begin, nothing is cached, every widget shows its
\* default.
Init ==
  /\ artifact \in ArtifactStates
  /\ fileChanges = 0
  /\ cache = Uncached
  /\ reads = 0
  /\ widgets = DefaultWidgets
  /\ edits = 0
  /\ button = FALSE
  /\ pc = "start"
  /\ ended = "running"
  /\ runs = 1
  /\ model = "unset"
  /\ loadMessage = "none"
  /\ fileAtLoad = "unread"
  /\ bodyRan = FALSE
  /\ features = NoFeatures
  /\ oracle = {}
  /\ attempts = 0
  /\ served = {}
  /\ prediction = None
  /\ prediction_proba = None
  /\ predictionError = FALSE
  /\ predictCalls = 0
  /\ probaCalls = 0
  /\ rendered = NothingRendered

(* ----------------------------- user events ---------------------------- *)
\* Streamlit reruns the script from the top: the locals and the page of the
\* previous run are gone.
Rerun ==
  /\ pc = "idle"
  /\ runs < MaxRuns
  /\ runs' = runs + 1
  /\ pc' = "start"
  /\ ended' = "running"
  /\ model' = "unset"
  /\ loadMessage' = "none"
  /\ fileAtLoad' = "unread"
  /\ bodyRan' = FALSE
  /\ attempts' = 0
  /\ features' = NoFeatures
  /\ prediction' = None
  /\ prediction_proba' = None
  /\ predictionError' = FALSE
  /\ predictCalls' = 0
  /\ probaCalls' = 0
  /\ rendered' = NothingRendered
  /\ UNCHANGED <<disk, cache, reads, oracle, served>>

\* The user sets widget w to v; a value the widget does not offer cannot be
\* entered, and a widget is on the page only if the last run built the
\* form.  The button reads False in the rerun.
SetWidget(w, v) ==
  /\ features.built
  /\ edits < MaxEdits
  /\ Accepts(w, v)
  /\ v # widgets[w]
  /\ Rerun
  /\ widgets' = [widgets EXCEPT ![w] = v]
  /\ edits' = edits + 1
  /\ button' = FALSE

\* The user presses "Predict Fraud Risk", which is on the page only if the
\* last run got past the form: st.button returns True in the rerun it
\* triggers.
ClickButton ==
  /\ features.built
  /\ Rerun
  /\ button' = TRUE
  /\ UNCHANGED <<widgets, edits>>

\* The user reruns the script from Streamlit's menu: the widgets keep their
\* values and the button reads False.
RerunPage ==
  /\ Rerun
  /\ button' = FALSE
  /\ UNCHANGED <<widgets, edits>>

\* The file on disk is removed, damaged, or put in place.  Only LoadModel
\* reads the file, so a change while a run is past load_model() acts as a
\* change made when that run has ended: changes are taken between runs.
ChangeArtifact(a) ==
  /\ pc \in {"start", "idle"}
  /\ fileChanges < MaxFileChanges
  /\ a # artifact
  /\ artifact' = a
  /\ fileChanges' = fileChanges + 1
  /\ UNCHANGED <<session, pc, ended, loaded, features, predicted, rendered>>

(* ------------------------- the script run: main ----------------------- *)
\* model = load_model()
LoadModel ==
  /\ pc = "start"
  /\ LET r == cache_resource(cache, artifact)
     IN /\ cache' = r.cache
        /\ reads' = reads + (IF r.read THEN 1 ELSE 0)
        /\ fileAtLoad' = artifact
        /\ bodyRan' = r.read
        /\ IF r.out.raised
             THEN /\ pc' = "idle"
                  /\ ended' = "exception"
                  /\ UNCHANGED <<model, loadMessage>>
             ELSE /\ pc' = "loaded"
                  /\ model' = r.out.value
                  /\ loadMessage' = r.out.message
                  /\ UNCHANGED ended
  /\ UNCHANGED <<session, disk, features, predicted, rendered>>

\* if model is None: st.stop()
StopOnNone ==
  /\ pc = "loaded"
  /\ model_is_none(model)
  /\ pc' = "idle"
  /\ ended' = "stopped"
  /\ UNCHANGED <<session, disk, loaded, features, predicted, rendered>>

\* features = create_input_features()
CreateInputFeatures ==
  /\ pc = "loaded"
  /\ ~model_is_none(model)
  /\ features' = [built |-> TRUE, record |-> create_input_features(widgets)]
  /\ pc' = "form"
  /\ UNCHANGED <<session, disk, loaded, ended, predicted, rendered>>

\* st.button(...) is False: the prediction section stays empty and the run
\* ends after the footer.
NoButton ==
  /\ pc = "form"
  /\ ~button
  /\ pc' = "idle"
  /\ ended' = "completed"
  /\ UNCHANGED <<session, disk, loaded, features, predicted, rendered>>

\* prediction, prediction_proba = make_prediction(model, features)
MakePrediction ==
  /\ pc = "form"
  /\ button
  /\ \E ans \in ClassifierAnswers :
       /\ \A o \in oracle : o.record = features.record => o.answer = ans
       /\ LET r == make_prediction(model, ans)
          IN /\ prediction' = r.prediction
             /\ prediction_proba' = r.prediction_proba
             /\ predictionError' = r.error
             /\ attempts' = attempts + 1
             /\ served' = served \cup {[record |-> features.record,
                                         prediction |-> r.prediction,
                                         prediction_proba |-> r.prediction_proba]}
             /\ predictCalls' = predictCalls + r.predictCalls
             /\ probaCalls' = probaCalls + r.probaCalls
             /\ oracle' = IF r.predictCalls > 0
                            THEN oracle \cup {[record |-> features.record, answer |-> ans]}
                            ELSE oracle
  /\ pc' = "returned"
  /\ UNCHANGED <<session, disk, loaded, ended, features, rendered>>

\* if prediction is not None: ... the rest of main
RenderResult ==
  /\ pc = "returned"
  /\ rendered' = Render(prediction, prediction_proba)
  /\ pc' = "idle"
  /\ ended' = IF rendered'.exception THEN "exception" ELSE "completed"
  /\ UNCHANGED <<session, disk, loaded, features, predicted>>

(* --------------------------- specifications --------------------------- *)
\* the values the user picks in the sessions of Spec: a few widgets, each
\* with values inside and (for the number input) outside its range
SampleWidgets == {"fault", "make", "driver_rating", "policy_number"}

SampleChoices(w) ==
  CASE w = "fault" -> {"Policy Holder", "Third Party"}
    [] w = "make" -> {"Lexus", "Tesla"}
    [] w = "driver_rating" -> {0, 4, 5}
    [] OTHER -> {0, 1, 15420, 15421}

\* the values the user picks in the sessions of SpecForm: every option of
\* every selectbox, every position of every slider, and the ends and
\* neighbours of the ends of the number input
AllChoices(w) ==
  IF w \in SelectboxNames THEN Range(SelectboxOptions[w])
  ELSE IF w = "policy_number"
         THEN {SliderArgs[w].min - 1, SliderArgs[w].min, SliderArgs[w].min + 1,
               SliderArgs[w].max - 1, SliderArgs[w].max, SliderArgs[w].max + 1}
         ELSE SliderArgs[w].min .. SliderArgs[w].max

UserEdit == \E w \in SampleWidgets : \E v \in SampleChoices(w) : SetWidget(w, v)

FileEvent == \E a \in ArtifactStates : ChangeArtifact(a)

Next ==
  \/ UserEdit
  \/ ClickButton
  \/ RerunPage
  \/ FileEvent
  \/ LoadModel
  \/ StopOnNone
  \/ CreateInputFeatures
  \/ NoButton
  \/ MakePrediction
  \/ RenderResult

Spec == Init /\ [][Next]_vars

\* Sessions in which the user only fills in the form, over the whole domain
\* of every widget, with the artifact in place.
InitForm == Init /\ artifact = "ok"

FormEdit == \E w \in WidgetNames : \E v \in AllChoices(w) : SetWidget(w, v)

NextForm ==
  \/ FormEdit
  \/ RerunPage
  \/ LoadModel
  \/ CreateInputFeatures
  \/ NoButton

SpecForm == InitForm /\ [][NextForm]_vars


(* ------------------------------ the claims ---------------------------- *)
\* the pipeline's answer for the record of the current run
AnswerGiven == (CHOOSE o \in oracle : o.record = features.record).answer

\* C1: whenever main renders a risk level for a fraud probability p1, the
\* level is HIGH iff p1 >= 0.7, MEDIUM iff 0.4 <= p1 < 0.7 and LOW iff
\* p1 < 0.4, so exactly one level is rendered for every p1, the boundaries
\* 0.4 and 0.7 included.
RiskLevelThresholds ==
  ~rendered.scores.none =>
    LET p1 == rendered.scores.v[2]
    IN /\ rendered.risk \in {"HIGH", "MEDIUM", "LOW"}
       /\ rendered.risk = "HIGH" <=> 10 * p1 >= 7 * Scale
       /\ rendered.risk = "MEDIUM" <=> (10 * p1 >= 4 * Scale /\ 10 * p1 < 7 * Scale)
       /\ rendered.risk = "LOW" <=> 10 * p1 < 4 * Scale

\* a fraud probability of exactly 0.7 has been rendered as HIGH
RiskLevelAtBoundary ==
  /\ ~rendered.scores.none
  /\ 10 * rendered.scores.v[2] = 7 * Scale
  /\ rendered.risk = "HIGH"

\* C2: make_prediction returns a label and a probability pair, or neither;
\* when predict succeeded and predict_proba raised, no label is returned;
\* and after a failed prediction main renders no banner, no probabilities
\* and no risk level.
PredictionAtomic ==
  /\ prediction.none <=> prediction_proba.none
  /\ (attempts > 0 /\ predictCalls = 1 /\ AnswerGiven.proba = "raise") =>
       (prediction.none /\ predictionError)
  /\ predictionError => (prediction.none /\ rendered = NothingRendered)
  /\ \A r \in served : r.prediction.none <=> r.prediction_proba.none

\* a run in which predict succeeded and predict_proba raised has ended
ProbaFailedAfterPredict ==
  /\ pc = "idle"
  /\ ended = "completed"
  /\ attempts = 1
  /\ predictCalls = 1
  /\ AnswerGiven.proba = "raise"

\* C3: when the body of load_model finds the file missing, no exception
\* reaches main, the not-found error is shown and None is returned; when it
\* finds a file it cannot unpickle, likewise with the load error.
LoadFailureIsAnOutcome ==
  /\ (bodyRan /\ fileAtLoad = "missing") =>
       (ended # "exception" /\ model = "None" /\ loadMessage = "NotFound")
  /\ (bodyRan /\ fileAtLoad = "corrupt") =>
       (ended # "exception" /\ model = "None" /\ loadMessage = "LoadError")

\* a run whose load_model found the file missing has been stopped
MissingFileLoaded ==
  /\ bodyRan
  /\ fileAtLoad = "missing"
  /\ ended = "stopped"

\* C4: over the runs of one process the file is read at most once, every
\* call of load_model returns what the cache holds, and the cache entry,
\* once set, never changes.
LoadedAtMostOnce ==
  /\ [](reads <= 1)
  /\ [](model # "unset" => (cache.hit /\ model = cache.value))
  /\ [][cache.hit => cache' = cache]_vars

\* a later run got the handle from the cache although the file is gone
ServedFromCache ==
  /\ runs >= 2
  /\ pc = "loaded"
  /\ ~bodyRan
  /\ model = "model"
  /\ artifact = "missing"
  /\ reads = 1

\* C5: no run without a model handle produces a prediction, and a run that
\* calls load_model() while the file is loadable obtains a model handle (a
\* failed load is not retained).
LoadFailureCorrectable ==
  /\ model = "None" => (attempts = 0 /\ rendered = NothingRendered)
  /\ (pc = "loaded" /\ fileAtLoad = "ok") => model = "model"

CategoricalKeys ==
  {"Month", "DayOfWeek", "Make", "AccidentArea", "DayOfWeekClaimed", "MonthClaimed",
   "Sex", "MaritalStatus", "Fault", "PolicyType", "VehicleCategory", "VehiclePrice",
   "Days_Policy_Accident", "Days_Policy_Claim", "PastNumberOfClaims", "AgeOfVehicle",
   "AgeOfPolicyHolder", "PoliceReportFiled", "WitnessPresent", "AgentType",
   "NumberOfSuppliments", "AddressChange_Claim", "NumberOfCars", "BasePolicy"}

NumericKeys ==
  {"WeekOfMonth", "WeekOfMonthClaimed", "Age", "PolicyNumber", "RepNumber",
   "Deductible", "DriverRating", "Year"}

\* the domain the form declares for each key of the dictionary
ClaimRecordSchema ==
  [ Month |-> Range(SelectboxOptions.month),
    DayOfWeek |-> Range(SelectboxOptions.day_of_week),
    Make |-> Range(SelectboxOptions.make),
    AccidentArea |-> Range(SelectboxOptions.accident_area),
    DayOfWeekClaimed |-> Range(SelectboxOptions.day_of_week_claimed),
    MonthClaimed |-> Range(SelectboxOptions.month_claimed),
    WeekOfMonth |-> 1..5,
    WeekOfMonthClaimed |-> 0..5,
    Sex |-> Range(SelectboxOptions.sex),
    MaritalStatus |-> Range(SelectboxOptions.marital_status),
    Age |-> 16..80,
    Fault |-> Range(SelectboxOptions.fault),
    PolicyType |-> Range(SelectboxOptions.policy_type),
    VehicleCategory |-> Range(SelectboxOptions.vehicle_category),
    VehiclePrice |-> Range(SelectboxOptions.vehicle_price),
    Days_Policy_Accident |-> Range(SelectboxOptions.days_policy_accident),
    Days_Policy_Claim |-> Range(SelectboxOptions.days_policy_claim),
    PastNumberOfClaims |-> Range(SelectboxOptions.past_number_of_claims),
    AgeOfVehicle |-> Range(SelectboxOptions.age_of_vehicle),
    AgeOfPolicyHolder |-> Range(SelectboxOptions.age_of_policy_holder),
    PoliceReportFiled |-> Range(SelectboxOptions.police_report_filed),
    WitnessPresent |-> Range(SelectboxOptions.witness_present),
    AgentType |-> Range(SelectboxOptions.agent_type),
    NumberOfSuppliments |-> Range(SelectboxOptions.number_of_suppliments),
    AddressChange_Claim |-> Range(SelectboxOptions.address_change_claim),
    NumberOfCars |-> Range(SelectboxOptions.number_of_cars),
    BasePolicy |-> Range(SelectboxOptions.base_policy),
    PolicyNumber |-> 1..15420,
    RepNumber |-> 1..16,
    Deductible |-> {300, 400, 500, 600, 700},
    DriverRating |-> 1..4,
    Year |-> 1994..1996 ]

\* every key of the record is present and holds a value of its domain
WithinSchema(r) ==
  /\ DOMAIN r = CategoricalKeys \cup NumericKeys
  /\ DOMAIN r = DOMAIN ClaimRecordSchema
  /\ \A k \in DOMAIN r : r[k] \in ClaimRecordSchema[k]

InitializationBarrier ==
  /\ (features.built \/ attempts > 0 \/ predictCalls > 0 \/ probaCalls > 0) =>
       model = "model"
  /\ model = "None" =>
       /\ ~features.built
       /\ attempts = 0 /\ predictCalls = 0 /\ probaCalls = 0
       /\ pc \in {"loaded", "idle"}
       /\ pc = "idle" => ended = "stopped"
  /\ attempts <= 1 /\ predictCalls <= 1 /\ probaCalls <= 1
  /\ attempts > 0 => button

\* a run whose load_model() returned the cached None has been stopped
StoppedWithoutModel ==
  /\ runs >= 2
  /\ model = "None"
  /\ ended = "stopped"
  /\ pc = "idle"

=============================================================================
